---------------------------- MODULE Spec2Model ----------------------------
(***************************************************************************)
(* Command routing of friendly-telegram: CommandDispatcher.handle_command  *)
(* and CommandDispatcher.handle_incoming (dispatcher.py), the helpers of   *)
(* utils.py they call, and the start-up sequence of main.amain.            *)
(*                                                                         *)
(* A text is a sequence of one-character strings.  One call of a handler   *)
(* is in flight at a time; every await of the code is a position of pc, and*)
(* what the awaited collaborator answers (a result or an exception) is     *)
(* chosen by the action that resumes the call.  log records, in order, the *)
(* calls the handler in flight has made on its collaborators.              *)
(***************************************************************************)
EXTENDS Integers, Sequences, FiniteSets, TLC

VARIABLES
    phase,            \* position of main.amain: starting, constructed, inited, running, aborted
    bot,              \* CommandDispatcher._bot
    me,               \* CommandDispatcher._me
    cached_username,  \* CommandDispatcher._cached_username
    db_prefix,        \* the stored value of (main, "command_prefix")
    call,             \* the call in flight: the handler and the event it was given
    pc,               \* position of the handler call in flight
    event,            \* event.message, the object the call works on
    loc,              \* the local variables of the call
    log,              \* the calls made on collaborators, in order
    raised,           \* the exception the call raised to its caller
    translator        \* the Translator: its state, _languages, _data, its last gettext

vars == <<phase, bot, me, cached_username, db_prefix, call, pc, event, loc, log, raised,
          translator>>

-----------------------------------------------------------------------------
(* Bounds of the model. *)

\* most leading "." a generated text starts with
MaxLead == 4
\* most watchers the registry holds
MaxWatchers == 3

-----------------------------------------------------------------------------
(* Python string primitives, on sequences of characters. *)

\* s[n:]
Drop(s, n) == IF n >= Len(s) THEN <<>> ELSE SubSeq(s, n + 1, Len(s))

\* s[:n]
Take(s, n) == IF n >= Len(s) THEN s ELSE SubSeq(s, 1, n)

\* s.startswith(p)
StartsWith(s, p) == Len(p) <= Len(s) /\ SubSeq(s, 1, Len(p)) = p

\* k * p
RECURSIVE Repeat(_, _)
Repeat(p, k) == IF k <= 0 THEN <<>> ELSE p \o Repeat(p, k - 1)

\* c.isspace()
IsSpace(c) == c \in {" ", "\n", "\t"}

\* the number of leading characters of s that satisfy isspace
RECURSIVE LeadingSpaces(_)
LeadingSpaces(s) ==
    IF s = <<>> \/ ~IsSpace(Head(s)) THEN 0 ELSE 1 + LeadingSpaces(Tail(s))

\* the number of leading characters of s that do not satisfy isspace
RECURSIVE LeadingWord(_)
LeadingWord(s) ==
    IF s = <<>> \/ IsSpace(Head(s)) THEN 0 ELSE 1 + LeadingWord(Tail(s))

\* s.split(maxsplit=1): [], [word] or [word, rest]
SplitMax1(s) ==
    LET a == Drop(s, LeadingSpaces(s))
        n == LeadingWord(a)
        r == Drop(a, n)
        b == Drop(r, LeadingSpaces(r))
    IN  IF a = <<>> THEN <<>>
        ELSE IF b = <<>> THEN <<Take(a, n)>>
        ELSE <<Take(a, n), b>>

\* the number of leading characters of s other than c
RECURSIVE Before(_, _)
Before(s, c) ==
    IF s = <<>> \/ Head(s) = c THEN 0 ELSE 1 + Before(Tail(s), c)

\* s.split("@", maxsplit=1): [s] or [before, after]
SplitAtMax1(s) ==
    LET n == Before(s, "@")
    IN  IF n = Len(s) THEN <<s>> ELSE <<Take(s, n), Drop(s, n + 1)>>

\* c.lower(), on the letters the model's texts use
LowerChar(c) ==
    CASE c = "B" -> "b"
      [] c = "D" -> "d"
      [] c = "U" -> "u"
      [] c = "S" -> "s"
      [] c = "O" -> "o"
      [] c = "M" -> "m"
      [] c = "E" -> "e"
      [] OTHER -> c

\* s.lower()
Lower(s) == [i \in 1..Len(s) |-> LowerChar(s[i])]

\* s.replace(c, r), c one character
RECURSIVE Replace(_, _, _)
Replace(s, c, r) ==
    IF s = <<>> THEN <<>>
    ELSE (IF Head(s) = c THEN r ELSE <<Head(s)>>) \o Replace(Tail(s), c, r)

Amp == <<"&", "a", "m", "p", ";">>
Lt == <<"&", "l", "t", ";">>
Gt == <<"&", "g", "t", ";">>

\* a slip in escape_html: "&" replaced last, so the entities are escaped again
EscapeHtmlAmpLast(text) ==
    Replace(Replace(Replace(text, "<", Lt), ">", Gt), "&", Amp)

\* utils.escape_html
escape_html(text) ==
    Replace(Replace(Replace(text, "&", Amp), "<", Lt), ">", Gt)

-----------------------------------------------------------------------------
(* The values the model's inputs are drawn from. *)

\* "no sender": message.from_id is None
NoId == 0
\* the session's own user id, as client.get_me(True).user_id returns it
MeId == 1
\* the user id of somebody else
OtherId == 2

\* the chat ids utils.get_chat_id yields
ChatIds == {5, 7}

\* the session's handle as client.get_me().username returns it
Handle == <<"B", "o", "b">>

Dot == <<".">>
Help == <<"h", "e", "l", "p">>
Ping == <<"p", "i", "n", "g">>

\* what a generated text puts after its leading "."s: nothing, a command or an
\* alias with and without arguments, a command tagged with "me", with the handle
\* (in two spellings) and with another name, text to escape, whitespace alone,
\* whitespace before the command
Bodies ==
    { <<>>,
      Help,
      Help \o <<" ", "x">>,
      <<"h", " ", "x">>,
      Ping,
      Ping \o <<"@", "m", "e">>,
      Ping \o <<"@", "b", "o", "b">>,
      Ping \o <<"@", "B", "O", "B", " ", "x">>,
      Ping \o <<"@", "e", "v", "e">>,
      <<"a", "<", "&", ">">>,
      <<" ">>,
      <<" ">> \o Help \o <<" ", "x">> }

\* event.message.message: every body after at most two ".", and a few bodies
\* after more
Texts ==
    { Repeat(Dot, k) \o b : k \in 0..2, b \in Bodies }
        \cup { Repeat(Dot, k) \o b : k \in 3..MaxLead, b \in {<<>>, Help} }

\* the value of a "phone" attribute, and the mark of a message that has none
NoAttr == <<"<no attribute>">>
Phone == <<"4", "2">>

\* A message carries nothing special, a sticker, an inline-bot origin, a phone
\* attribute, or an inline-bot origin together with a phone attribute.
Extras ==
    { [sticker |-> FALSE, via_bot_id |-> FALSE, phone |-> NoAttr],
      [sticker |-> TRUE,  via_bot_id |-> FALSE, phone |-> NoAttr],
      [sticker |-> FALSE, via_bot_id |-> TRUE,  phone |-> NoAttr],
      [sticker |-> FALSE, via_bot_id |-> FALSE, phone |-> Phone],
      [sticker |-> FALSE, via_bot_id |-> TRUE,  phone |-> Phone] }

\* message.to_id and message.chat_id of a message of chat c: a private chat is
\* addressed by a PeerUser and chat_id is the peer's id, a group by a PeerChat
\* and chat_id is the id negated
ToId(c, private) ==
    [kind |-> IF private THEN "PeerUser" ELSE "PeerChat", id |-> c]
ChatIdOf(c, private) == IF private THEN c ELSE 0 - c

\* the messages whose text is in T and whose sender is in F
Messages(T, F) ==
    { [message |-> t, to_id |-> ToId(c, p), chat_id |-> ChatIdOf(c, p),
       from_id |-> f, is_private |-> p,
       sticker |-> x.sticker, via_bot_id |-> x.via_bot_id, phone |-> x.phone] :
        t \in T, c \in ChatIds, f \in F, p \in BOOLEAN, x \in Extras }

\* events.NewMessage(forwards=False): sent by anybody, the session included
CommandEvents == Messages(Texts, {NoId, MeId, OtherId})

\* events.NewMessage(incoming=True): never sent by the session itself
IncomingEvents ==
    { m \in Messages({Dot \o Help}, {NoId, OtherId}) : ~m.sticker /\ ~m.via_bot_id }

NoMessage ==
    [message |-> <<>>, to_id |-> [kind |-> "none", id |-> 0], chat_id |-> 0,
     from_id |-> NoId, is_private |-> FALSE,
     sticker |-> FALSE, via_bot_id |-> FALSE, phone |-> NoAttr]

\* A stored list holds chat ids (integers) and "<chat>.<module>" keys
\* (strings); a Python list of both is modelled by its two parts.
PyList(ids, keys) == [ids |-> ids, keys |-> keys]
EmptyList == PyList({}, {})

Modules == {"mod_x", "mod_y"}

\* what db.get returns for blacklist_chats, whitelist_chats, whitelist_modules
Policies ==
    { [blacklist_chats |-> b, whitelist_chats |-> PyList(w, {}),
       whitelist_modules |-> PyList({}, m)] :
        b \in {EmptyList, PyList({7}, {}), PyList({}, {"7.mod_x"})},
        w \in {{}, {5}},
        m \in {{}, {"7.mod_x"}} }

\* the stored command_prefix: nothing, a string, or a list of strings
DbUnset == [kind |-> "unset", val |-> <<>>]
DbStr(s) == [kind |-> "str", val |-> <<s>>]
DbList(l) == [kind |-> "list", val |-> l]

StoredPrefixes ==
    { DbUnset, DbStr(Dot), DbList(<<Dot, Dot \o Dot>>), DbList(<<Dot \o Dot, Dot>>) }


\* a handler or watcher: a bound method, its owner's module in func.__self__.__module__
Func(name, mod) == [name |-> name, mod |-> mod]
\* func is None
NoFunc == Func("", "")

\* Modules.dispatch(command) -> (canonical text, handler or None).  The registry
\* holds the commands help (of mod_y) and ping (of mod_x) and the aliases h and
\* .help of help.
dispatch(command) ==
    CASE command = Help -> [txt |-> Help, func |-> Func("help", "mod_y")]
      [] command = <<"h">> -> [txt |-> Help, func |-> Func("help", "mod_y")]
      [] command = Dot \o Help -> [txt |-> Help, func |-> Func("help", "mod_y")]
      [] command = Ping -> [txt |-> Ping, func |-> Func("ping", "mod_x")]
      [] OTHER -> [txt |-> command, func |-> NoFunc]

\* the sequences over S of length at most n
RECURSIVE SeqsUpTo(_, _)
SeqsUpTo(S, n) ==
    IF n = 0 THEN {<<>>}
    ELSE LET R == SeqsUpTo(S, n - 1)
         IN  R \cup { Append(r, x) : r \in {q \in R : Len(q) = n - 1}, x \in S }

\* Modules.watchers: the owning module of each registered watcher, in order
WatcherLists == SeqsUpTo(Modules, MaxWatchers)

\* what SecurityManager.check answers
CheckResults == {"True", "False", "None"}

-----------------------------------------------------------------------------
(* The state of a call. *)

NoLoc ==
    [prefix |-> <<>>, blacklist_chats |-> EmptyList, whitelist_chats |-> EmptyList,
     whitelist_modules |-> EmptyList, command |-> <<>>, tag |-> <<>>,
     txt |-> <<>>, func |-> NoFunc, check |-> "none", watchers |-> <<>>, i |-> 0,
     e |-> "none", notice_error |-> "none"]

\* no call is in flight
NoCall == [handler |-> "none", event |-> NoMessage]

\* one call on a collaborator: what is called, the line that calls it, on whose
\* behalf (a handler, a watcher's module), the text it is given and, for a
\* watcher, its place in Modules.watchers
CallN(op, at, who, arg, n) == [op |-> op, at |-> at, who |-> who, arg |-> arg, n |-> n]
Call(op, at, who, arg) == CallN(op, at, who, arg, 0)

\* the call as it stands: position, message, locals, calls made, exception raised
St(p, ev, l, lg, r) == [pc |-> p, event |-> ev, loc |-> l, log |-> lg, raised |-> r]

\* return
Return(ev, l, lg) == St("done", ev, l, lg, "none")
\* an exception leaves the handler
Raise(x, ev, l, lg) == St("done", ev, l, lg, x)

Go(st) ==
    /\ pc' = st.pc
    /\ event' = st.event
    /\ loc' = st.loc
    /\ log' = st.log
    /\ raised' = st.raised

-----------------------------------------------------------------------------
(* The decisions of dispatcher.py, as the code computes them. *)

\* a stored value Python treats as false: False, "" or []
Falsy(stored) ==
    \/ stored.kind = "unset"
    \/ stored.kind = "str" /\ stored.val[1] = <<>>
    \/ stored.kind = "list" /\ stored.val = <<>>

\* prefixes, after lines 38-40
ReadPrefixes(stored) == IF Falsy(stored) THEN <<Dot>> ELSE stored.val

\* lines 39-41 without the db.set of line 41: the string stays in the store
MigratedStoreKept(stored) == stored

\* the store after lines 39-41: a string is written back as a list
MigratedStore(stored) ==
    IF ~Falsy(stored) /\ stored.kind = "str" THEN DbList(stored.val) ELSE stored

\* the calls lines 38-41 make on the store that change it
MigrationLog(stored) ==
    IF ~Falsy(stored) /\ stored.kind = "str"
    THEN <<Call("db.set", 41, "command_prefix", stored.val[1])>>
    ELSE <<>>

\* lines 44-48 without the test of line 46: the first entry, whatever the text
SelectFirstEntry(prefixes, text) == prefixes[1]

\* lines 44-48 choosing the longest entry the text starts with
SelectLongestMatch(prefixes, text) ==
    LET S == { i \in 1..Len(prefixes) : StartsWith(text, prefixes[i]) }
    IN  IF S = {} THEN <<>>
        ELSE prefixes[CHOOSE i \in S : \A j \in S : Len(prefixes[i]) >= Len(prefixes[j])]

\* prefix, after lines 44-48: the first entry the text starts with, <<>> for None
SelectPrefix(prefixes, text) ==
    LET S == { i \in 1..Len(prefixes) : StartsWith(text, prefixes[i]) }
    IN  IF S = {} THEN <<>>
        ELSE prefixes[CHOOSE i \in S : \A j \in S : i <= j]

\* utils.censor on a message: the phone attribute, when there is one, is
\* overwritten in the object itself, and the object is returned
censor(obj) ==
    IF obj.phone = NoAttr THEN obj
    ELSE [obj EXCEPT !.phone = <<"redacted_", ToString(Len(obj.phone)), "_chars">>]

\* utils.get_entity_id: the one attribute of a peer
get_entity_id(entity) == entity.id

\* utils.get_chat_id
get_chat_id(message) ==
    IF message.to_id.kind = "PeerUser" THEN message.chat_id
    ELSE get_entity_id(message.to_id)

\* bool(list)
NonEmpty(list) == list.ids # {} \/ list.keys # {}

\* the filter of lines 61-62 and 116-117, without the whitelist
ChatDeniedNoWhitelist(message, blacklist_chats, whitelist_chats) ==
    \/ get_chat_id(message) \in blacklist_chats.ids
    \/ message.from_id = NoId

\* lines 61-62 and 116-117
ChatDenied(message, blacklist_chats, whitelist_chats) ==
    \/ get_chat_id(message) \in blacklist_chats.ids
    \/ NonEmpty(whitelist_chats) /\ get_chat_id(message) \notin whitelist_chats.ids
    \/ message.from_id = NoId

\* str(utils.get_chat_id(message)) + "." + func.__self__.__module__
ModuleKey(message, func) == ToString(get_chat_id(message)) \o "." \o func.mod

\* lines 86 and 121
ModuleBlacklisted(message, func, blacklist_chats) ==
    ModuleKey(message, func) \in blacklist_chats.keys

\* lines 89-90 and 124-125 with the whitelist read chat by chat: it binds only
\* the chats it has an entry for
ModuleNotWhitelistedInChat(message, func, whitelist_modules) ==
    /\ \E m \in Modules :
          ToString(get_chat_id(message)) \o "." \o m \in whitelist_modules.keys
    /\ ModuleKey(message, func) \notin whitelist_modules.keys

\* lines 89-90 and 124-125
ModuleNotWhitelisted(message, func, whitelist_modules) ==
    NonEmpty(whitelist_modules) /\ ModuleKey(message, func) \notin whitelist_modules.keys

\* lines 65-66 without the last test: a text of prefixes alone is escaped too
EscapeRuleRepeatsToo(text, prefix) ==
    /\ ~bot
    /\ Len(text) > Len(prefix)
    /\ Take(text, Len(prefix) * 2) = Repeat(prefix, 2)

\* lines 65-66: the doubled-prefix rule
EscapeRule(text, prefix) ==
    /\ ~bot
    /\ Len(text) > Len(prefix)
    /\ Take(text, Len(prefix) * 2) = Repeat(prefix, 2)
    /\ text # Repeat(prefix, Len(text) \div Len(prefix))

\* the argument of the edit of line 68
EscapedText(text, prefix) == escape_html(Drop(text, Len(prefix)))

Me == <<"m", "e">>

\* lines 76-78 without the first test: any tag passes for the owner or in private
SomeoneElseTagIgnored(tag, message) ==
    /\ message.from_id # me /\ ~message.is_private
    /\ ~(Len(tag) = 2 /\ Lower(tag[2]) \in {cached_username, Me})

\* lines 76-78 without "and not message.is_private": only the owner's untagged
\* commands pass
SomeoneElseUnlessOwner(tag, message) ==
    \/ Len(tag) = 2 /\ Lower(tag[2]) # cached_username
    \/ /\ message.from_id # me
       /\ ~(Len(tag) = 2 /\ Lower(tag[2]) \in {cached_username, Me})

\* lines 76-78: the command is targetted at someone else
SomeoneElse(tag, message) ==
    \/ Len(tag) = 2 /\ Lower(tag[2]) # cached_username
    \/ /\ message.from_id # me /\ ~message.is_private
       /\ ~(Len(tag) = 2 /\ Lower(tag[2]) \in {cached_username, Me})

\* line 83 testing for False alone: None lets the command through
IsFalse(result) == result = "False"

\* line 83: the answer of the security check is not True
NotTrue(result) == result # "True"

\* line 85 dropping what follows the command
RewrittenNoArgs(txt, text, command) == txt

\* line 85: message.message = txt + message.message[len(command):]
Rewritten(txt, text, command) == txt \o Drop(text, Len(command))

\* lines 98-105: the notice sent when a handler failed
Notice(message, prefix) ==
    IF bot
    THEN Call("respond", 99, "notice", <<"<b>Sorry, something went wrong!</b>">>)
    ELSE Call("edit", 101, "notice",
              <<"<b>Request failed! Request was</b> <code>">>
                  \o escape_html(message.message)
                  \o <<"</code><b>. Please report it in the support group (</b><code>">>
                  \o prefix
                  \o <<"support</code><b>) along with the logs (</b><code>">>
                  \o prefix
                  \o <<"logs error</code><b>)</b>">>)

\* lines 97-107 without the finally clause: a failing notice replaces e
RaiseLatest(e, notice_error) == IF notice_error = "none" THEN e ELSE notice_error

\* lines 106-107: finally: raise e, whatever the notice attempt did
FinallyRaise(e, notice_error) == e

-----------------------------------------------------------------------------
(* handle_command, from one await to the next. *)

\* lines 85-94 with the module-level filter of lines 86-92 ahead of line 85: a
\* module-denied command keeps the text as typed
InvokeFilterFirst(ev, l, lg) ==
    LET m == [ev EXCEPT !.message = Rewritten(l.txt, ev.message, l.command)]
    IN  IF ModuleBlacklisted(ev, l.func, l.blacklist_chats) THEN Return(ev, l, lg)
        ELSE IF ModuleNotWhitelisted(ev, l.func, l.whitelist_modules)
        THEN Return(ev, l, lg)
        ELSE St("hc_func", m, l,
                Append(lg, Call("func", 94, l.func.name, m.message)), "none")

\* lines 85-94: from the answer True of the security check to the handler's call
Invoke(ev, l, lg) ==
    LET m == [ev EXCEPT !.message = Rewritten(l.txt, ev.message, l.command)]
    IN  IF ModuleBlacklisted(m, l.func, l.blacklist_chats) THEN Return(m, l, lg)
        ELSE IF ModuleNotWhitelisted(m, l.func, l.whitelist_modules)
        THEN Return(m, l, lg)
        ELSE St("hc_func", m, l,
                Append(lg, Call("func", 94, l.func.name, m.message)), "none")

\* lines 69-83: from the prefix's removal to the call of the security check
Route(ev, l, lg) ==
    LET m == [ev EXCEPT !.message = Drop(ev.message, Len(l.prefix))]
        words == SplitMax1(m.message)
    IN  IF m.message = <<>> THEN Return(m, l, lg)
        ELSE IF words = <<>> THEN Raise("IndexError", m, l, lg)
        ELSE
            LET command == words[1]
                tag == SplitAtMax1(command)
                l1 == [l EXCEPT !.command = command, !.tag = tag]
                d == dispatch(tag[1])
                l2 == [l1 EXCEPT !.txt = d.txt, !.func = d.func]
                lg1 == Append(lg, Call("dispatch", 81, "", tag[1]))
            IN  IF SomeoneElse(tag, m) THEN Return(m, l1, lg)
                ELSE IF d.func = NoFunc THEN Return(m, l2, lg1)
                ELSE St("hc_check", m, l2,
                        Append(lg1, Call("check", 83, d.func.name, m.message)),
                        "none")

\* lines 58-68: from the reading of the policy to the edit of line 68, or on
\* to the security check when the message is not edited
Filter(ev, l, lg) ==
    IF ChatDenied(ev, l.blacklist_chats, l.whitelist_chats) THEN Return(ev, l, lg)
    ELSE IF EscapeRule(ev.message, l.prefix)
    THEN St("hc_edit", ev, l,
            Append(lg, Call("edit", 68, "escape", EscapedText(ev.message, l.prefix))),
            "none")
    ELSE Route(ev, l, lg)

\* lines 42-56 without the return of line 56: an inline bot's message goes on
StopsEarlyBotsPass(ev, prefix) ==
    \/ ev.message = <<>>
    \/ prefix = <<>>

\* the returns of lines 42-56: an empty text, no prefix, an inline-bot origin;
\* a sticker (lines 52-53) is logged and does not return
StopsEarly(ev, prefix) ==
    \/ ev.message = <<>>
    \/ prefix = <<>>
    \/ ev.via_bot_id

\* handle_command is called with an event: lines 38-68
handle_command ==
    /\ phase = "running"
    /\ pc = "idle"
    /\ \E ev \in CommandEvents :
        LET prefix == SelectPrefix(ReadPrefixes(db_prefix), ev.message)
            lg == MigrationLog(db_prefix)
            l == [NoLoc EXCEPT !.prefix = prefix]
        IN  /\ db_prefix' = MigratedStore(db_prefix)
            /\ call' = [handler |-> "handle_command", event |-> ev]
            /\ IF StopsEarly(ev, prefix)
               THEN Go(Return(ev, l, lg))
               ELSE \E pol \in Policies :
                        Go(Filter(censor(ev),
                                  [l EXCEPT !.blacklist_chats = pol.blacklist_chats,
                                            !.whitelist_chats = pol.whitelist_chats,
                                            !.whitelist_modules = pol.whitelist_modules],
                                  lg))
    /\ UNCHANGED <<phase, bot, me, cached_username, translator>>

\* message.edit of line 68 returns
hc_edit_returns ==
    /\ pc = "hc_edit"
    /\ Go(Route(event, loc, log))
    /\ UNCHANGED <<phase, bot, me, cached_username, db_prefix, call, translator>>

\* message.edit of line 68 raises
hc_edit_raises ==
    /\ pc = "hc_edit"
    /\ Go(Raise("EditError", event, loc, log))
    /\ UNCHANGED <<phase, bot, me, cached_username, db_prefix, call, translator>>

\* self._security.check of line 83 answers
hc_check_returns ==
    /\ pc = "hc_check"
    /\ \E r \in CheckResults :
        IF NotTrue(r) THEN Go(Return(event, [loc EXCEPT !.check = r], log))
        ELSE Go(Invoke(event, [loc EXCEPT !.check = r], log))
    /\ UNCHANGED <<phase, bot, me, cached_username, db_prefix, call, translator>>

\* self._security.check of line 83 raises
hc_check_raises ==
    /\ pc = "hc_check"
    /\ Go(Raise("SecurityError", event, loc, log))
    /\ UNCHANGED <<phase, bot, me, cached_username, db_prefix, call, translator>>

\* the handler of line 94 returns
hc_func_returns ==
    /\ pc = "hc_func"
    /\ Go(Return(event, loc, log))
    /\ UNCHANGED <<phase, bot, me, cached_username, db_prefix, call, translator>>

\* the handler of line 94 raises: lines 95-105, to the await of the notice
hc_func_raises ==
    /\ pc = "hc_func"
    /\ Go(St("hc_notice", event, [loc EXCEPT !.e = "HandlerError"],
             log \o << Call("logging.exception", 96, loc.func.name, <<"Command failed">>),
                       Notice(event, loc.prefix) >>,
             "none"))
    /\ UNCHANGED <<phase, bot, me, cached_username, db_prefix, call, translator>>

\* the notice of lines 99-105 returns or raises: lines 106-107
hc_notice_ends ==
    /\ pc = "hc_notice"
    /\ \E notice_error \in {"none", "NoticeError"} :
        Go(Raise(FinallyRaise(loc.e, notice_error), event,
                 [loc EXCEPT !.notice_error = notice_error], log))
    /\ UNCHANGED <<phase, bot, me, cached_username, db_prefix, call, translator>>

-----------------------------------------------------------------------------
(* handle_incoming, from one await to the next. *)

\* lines 120-129 with continue in the place of the return of lines 123 and
\* 127: a denied watcher is skipped and the loop goes on
RECURSIVE FanoutSkipping(_, _, _, _)
FanoutSkipping(ev, l, lg, i) ==
    IF i > Len(l.watchers) THEN Return(ev, [l EXCEPT !.i = i], lg)
    ELSE LET func == Func("watcher", l.watchers[i])
             li == [l EXCEPT !.i = i, !.func = func]
         IN  IF \/ ModuleBlacklisted(ev, func, l.blacklist_chats)
                \/ ModuleNotWhitelisted(ev, func, l.whitelist_modules)
             THEN FanoutSkipping(ev, l, lg, i + 1)
             ELSE St("hi_watcher", ev, li,
                     Append(lg, CallN("watcher", 129, func.mod, ev.message, i)),
                     "none")

\* lines 120-129: the loop, from watcher i on, to the call of a watcher
RECURSIVE Fanout(_, _, _, _)
Fanout(ev, l, lg, i) ==
    IF i > Len(l.watchers) THEN Return(ev, [l EXCEPT !.i = i], lg)
    ELSE LET func == Func("watcher", l.watchers[i])
             li == [l EXCEPT !.i = i, !.func = func]
         IN  IF ModuleBlacklisted(ev, func, l.blacklist_chats) THEN Return(ev, li, lg)
             ELSE IF ModuleNotWhitelisted(ev, func, l.whitelist_modules)
             THEN Return(ev, li, lg)
             ELSE St("hi_watcher", ev, li,
                     Append(lg, CallN("watcher", 129, func.mod, ev.message, i)),
                     "none")

\* handle_incoming is called with an event: lines 111-129
handle_incoming ==
    /\ phase = "running"
    /\ pc = "idle"
    /\ \E ev \in IncomingEvents, pol \in Policies :
        LET m == censor(ev)
            l == [NoLoc EXCEPT !.blacklist_chats = pol.blacklist_chats,
                               !.whitelist_chats = pol.whitelist_chats,
                               !.whitelist_modules = pol.whitelist_modules]
        IN  /\ call' = [handler |-> "handle_incoming", event |-> ev]
            /\ IF ChatDenied(m, l.blacklist_chats, l.whitelist_chats)
               THEN Go(Return(m, l, <<>>))
               ELSE \E ws \in WatcherLists :
                        Go(Fanout(m, [l EXCEPT !.watchers = ws], <<>>, 1))
    /\ UNCHANGED <<phase, bot, me, cached_username, db_prefix, translator>>

\* the watcher of line 129 returns
hi_watcher_returns ==
    /\ pc = "hi_watcher"
    /\ Go(Fanout(event, loc, log, loc.i + 1))
    /\ UNCHANGED <<phase, bot, me, cached_username, db_prefix, call, translator>>

\* lines 128-131 trying the failed watcher again
hi_watcher_raises_retry ==
    /\ pc = "hi_watcher"
    /\ Cardinality({ k \in DOMAIN log : log[k].op = "logging.exception" }) < MaxWatchers
    /\ Go(Fanout(event, loc,
                 Append(log, CallN("logging.exception", 131, loc.func.mod,
                                   <<"Error running watcher">>, loc.i)),
                 loc.i))
    /\ UNCHANGED <<phase, bot, me, cached_username, db_prefix, call, translator>>

\* the watcher of line 129 raises: lines 130-131, and the loop goes on
hi_watcher_raises ==
    /\ pc = "hi_watcher"
    /\ Go(Fanout(event, loc,
                 Append(log, CallN("logging.exception", 131, loc.func.mod,
                                   <<"Error running watcher">>, loc.i)),
                 loc.i + 1))
    /\ UNCHANGED <<phase, bot, me, cached_username, db_prefix, call, translator>>

\* the call has ended and the client goes on to its next event
next_event ==
    /\ pc = "done"
    /\ pc' = "idle"
    /\ call' = NoCall
    /\ event' = NoMessage
    /\ loc' = NoLoc
    /\ log' = <<>>
    /\ raised' = "none"
    /\ UNCHANGED <<phase, bot, me, cached_username, db_prefix, translator>>

-----------------------------------------------------------------------------
(* translations/core.py: the Translator. *)

\* locale identifiers, as packs and the "language" setting spell them
En == <<"e", "n">>
De == <<"d", "e">>
DeUpper == <<"D", "E">>
DeDe == <<"d", "e", "_", "D", "E">>
LocaleIds == {En, De, DeUpper, DeDe}

\* the texts modules pass to gettext; packs define the first only
Hi == <<"H", "i">>
Bye == <<"B", "y", "e">>
EnglishTexts == {Hi, Bye}

\* what a pack of locale l gives for the key Hi
Translation(l) == l \o <<":">> \o Hi

\* self._data after init, as what each locale identifier has for the key Hi: no
\* pack of that locale, a pack without the key, the key with an empty text,
\* the key with the pack's translation
DataSets == [LocaleIds -> {"no pack", "no key", "empty", "text"}]

\* the "language" setting: a list of locale identifiers, in preference order
MaxLanguages == 2
LanguageLists == SeqsUpTo(LocaleIds, MaxLanguages)

\* None and False, as return values
None == <<"<None>">>
False == <<"<False>">>

\* babel's LOCALE_ALIASES, on the languages of the model
Alias(ll) ==
    CASE ll = De -> DeDe
      [] ll = En -> <<"e", "n", "_", "U", "S">>
      [] OTHER -> None

\* babel.negotiate_locale(preferred, available), sep "_": the first preferred
\* identifier that, case ignored, is available, or whose alias is, or whose
\* language part is; the result is spelled as the preferred identifier, as the
\* alias or as the language part of the preferred identifier
RECURSIVE negotiate_locale(_, _)
negotiate_locale(preferred, available) ==
    IF preferred = <<>> THEN None
    ELSE LET avail == { Lower(a) : a \in { x \in available : x # <<>> } }
             locale == Head(preferred)
             ll == Lower(locale)
             alias == Alias(ll)
             n == Before(locale, "_")
         IN  IF ll \in avail THEN locale
             ELSE IF alias # None /\ Lower(alias) \in avail THEN alias
             ELSE IF n < Len(locale) /\ Lower(Take(locale, n)) \in avail
             THEN Take(locale, n)
             ELSE negotiate_locale(Tail(preferred), available)

\* lines 91-94: the locales whose strings hold the key
DefiningLocales(data, key) ==
    { l \in LocaleIds : key = Hi /\ data[l] \in {"empty", "text"} }

\* self._data.get(locale, {}).get(key, False), line 98
Lookup(data, locale, key) ==
    IF locale \notin LocaleIds \/ key # Hi THEN False
    ELSE CASE data[locale] = "text" -> Translation(locale)
           [] data[locale] = "empty" -> <<>>
           [] OTHER -> False

\* Translator.getkey(key), message None: lines 91-98
getkey(data, languages, key) ==
    Lookup(data, negotiate_locale(languages, DefiningLocales(data, key)), key)

\* Translator.gettext: self.getkey(english_text) or english_text
gettext(data, languages, english_text) ==
    LET r == getkey(data, languages, english_text)
    IN  IF r = False \/ r = <<>> THEN english_text ELSE r

\* no Translator yet
NoTranslator ==
    [state |-> "none", _languages |-> <<>>, _data |-> [l \in LocaleIds |-> "no pack"],
     english_text |-> <<>>, result |-> <<>>]

\* Translator(packs, languages), main.py 341
TranslatorInit ==
    /\ translator \in { [NoTranslator EXCEPT !.state = "constructed", !._languages = ls] :
                            ls \in LanguageLists }
    /\ phase = "starting"
    /\ bot = FALSE
    /\ me = NoId
    /\ cached_username = <<>>
    /\ db_prefix = DbUnset
    /\ call = NoCall
    /\ pc = "idle"
    /\ event = NoMessage
    /\ loc = NoLoc
    /\ log = <<>>
    /\ raised = "none"

\* Translator.init returns, main.py 342: the packs that loaded fill self._data
translator_init ==
    /\ translator.state = "constructed"
    /\ \E d \in DataSets :
        translator' = [translator EXCEPT !.state = "ready", !._data = d]
    /\ UNCHANGED <<phase, bot, me, cached_username, db_prefix, call, pc, event, loc, log, raised>>

\* Translator.set_preferred_languages, lines 87-88
set_preferred_languages ==
    /\ translator.state = "ready"
    /\ \E ls \in LanguageLists :
        translator' = [translator EXCEPT !._languages = ls,
                                         !.english_text = <<>>, !.result = <<>>]
    /\ UNCHANGED <<phase, bot, me, cached_username, db_prefix, call, pc, event, loc, log, raised>>

\* a module calls Translator.gettext, lines 100-101
translator_gettext ==
    /\ translator.state = "ready"
    /\ \E t \in EnglishTexts :
        translator' = [translator EXCEPT
                          !.english_text = t,
                          !.result = gettext(translator._data, translator._languages, t)]
    /\ UNCHANGED <<phase, bot, me, cached_username, db_prefix, call, pc, event, loc, log, raised>>

TranslatorNext ==
    \/ translator_init
    \/ set_preferred_languages
    \/ translator_gettext

TranslatorSpec == TranslatorInit /\ [][TranslatorNext]_vars

-----------------------------------------------------------------------------
(* main.amain, lines 358-363. *)

\* CommandDispatcher.init returns: lines 31-33
dispatcher_init ==
    /\ phase = "constructed"
    /\ phase' = "inited"
    /\ me' = MeId
    /\ cached_username' = Lower(Handle)
    /\ UNCHANGED <<bot, db_prefix, call, pc, event, loc, log, raised, translator>>

\* CommandDispatcher.init raises, and so does amain
dispatcher_init_raises ==
    /\ phase = "constructed"
    /\ phase' = "aborted"
    /\ UNCHANGED <<bot, me, cached_username, db_prefix, call, pc, event, loc, log, raised, translator>>

\* lines 360-363 moved above line 359: the handlers are registered whether or
\* not init has returned
add_event_handlers_unordered ==
    /\ phase \in {"constructed", "inited"}
    /\ phase' = "running"
    /\ UNCHANGED <<bot, me, cached_username, db_prefix, call, pc, event, loc, log, raised, translator>>

\* client.add_event_handler, twice: lines 360-363
add_event_handlers ==
    /\ phase = "inited"
    /\ phase' = "running"
    /\ UNCHANGED <<bot, me, cached_username, db_prefix, call, pc, event, loc, log, raised, translator>>

\* after CommandDispatcher(modules, db, await client.is_bot()), line 358
Init ==
    /\ phase = "constructed"
    /\ bot \in BOOLEAN
    /\ me = NoId
    /\ cached_username = <<>>
    /\ db_prefix \in StoredPrefixes
    /\ call = NoCall
    /\ pc = "idle"
    /\ event = NoMessage
    /\ loc = NoLoc
    /\ log = <<>>
    /\ raised = "none"
    /\ translator = NoTranslator

Next ==
    \/ dispatcher_init
    \/ dispatcher_init_raises
    \/ add_event_handlers
    \/ handle_command
    \/ hc_edit_returns
    \/ hc_edit_raises
    \/ hc_check_returns
    \/ hc_check_raises
    \/ hc_func_returns
    \/ hc_func_raises
    \/ hc_notice_ends
    \/ handle_incoming
    \/ hi_watcher_returns
    \/ hi_watcher_raises
    \/ next_event

Spec == Init /\ [][Next]_vars

-----------------------------------------------------------------------------
(* What the claims speak of. *)

InCommand == call.handler = "handle_command"
InIncoming == call.handler = "handle_incoming"

\* the places in log of the calls of one kind
Calls(op) == { i \in DOMAIN log : log[i].op = op }

\* the configured prefix list, as the store holds it
ConfiguredPrefixes == IF db_prefix.kind = "unset" THEN <<Dot>> ELSE db_prefix.val

\* the chat id of the event the call was given
EventChat == call.event.to_id.id

\* the chat-level denial, on the policy the call has read
ChatLevelDenied ==
    \/ EventChat \in loc.blacklist_chats.ids
    \/ loc.whitelist_chats.ids # {} /\ EventChat \notin loc.whitelist_chats.ids
    \/ call.event.from_id = NoId

\* the policy the call has read denies nothing
EmptyPolicy ==
    /\ loc.blacklist_chats = EmptyList
    /\ loc.whitelist_chats = EmptyList
    /\ loc.whitelist_modules = EmptyList

\* the security check, if it has been asked, answered True
CheckAllows == loc.check \in {"none", "True"} /\ raised # "SecurityError"

\* C1: an event whose text starts with none of the configured prefixes gets no
\* registry lookup, no authorization call, no edit, reply or respond and no
\* handler invocation from handle_command, whatever the configured prefix list.
C1_NoPrefixNoDispatch ==
    ( /\ InCommand
      /\ \A k \in 1..Len(ConfiguredPrefixes) :
            ~StartsWith(call.event.message, ConfiguredPrefixes[k]) )
    => \A i \in DOMAIN log :
            log[i].op \notin {"dispatch", "check", "edit", "reply", "respond", "func"}

\* handle_command has returned on the text "help" under the prefixes [".", ".."]
C1_Witness ==
    /\ InCommand
    /\ pc = "done"
    /\ call.event.message = Help
    /\ db_prefix = DbList(<<Dot, Dot \o Dot>>)
    /\ log = <<>>

\* the text is ".help" followed by nothing or by whitespace and arguments
IsDotHelp(text) ==
    /\ StartsWith(text, Dot \o Help)
    /\ Len(text) > 5 => IsSpace(text[6])

\* the scenario of C2: prefixes ["."], empty policy, authorization true, ".help
\* <args>" from the session's own identity in a private chat, handled to the end
C2_Scenario ==
    /\ InCommand
    /\ pc = "done"
    /\ ConfiguredPrefixes = <<Dot>>
    /\ EmptyPolicy
    /\ CheckAllows
    /\ IsDotHelp(call.event.message)
    /\ call.event.from_id = me
    /\ call.event.is_private

\* the help handler has been invoked exactly once, with the canonical text
\* followed by the trailing arguments
C2_HelpInvokedOnce ==
    /\ Cardinality(Calls("func")) = 1
    /\ \A i \in Calls("func") :
        /\ log[i].who = "help"
        /\ log[i].arg = Help \o Drop(call.event.message, 5)

\* C2 as stated: in the scenario the help handler is invoked exactly once with
\* the canonical text followed by the trailing arguments.
C2_Original == C2_Scenario => C2_HelpInvokedOnce

\* C2, amended: in the scenario, for a message that does not originate from an
\* inline bot, the help handler is invoked exactly once with the canonical text
\* followed by the trailing arguments.
C2_HelpDispatched ==
    (C2_Scenario /\ ~call.event.via_bot_id) => C2_HelpInvokedOnce

\* ".help x" from the owner in a private chat has reached the help handler
C2_Witness ==
    /\ C2_Scenario
    /\ ~call.event.via_bot_id
    /\ call.event.message = Dot \o Help \o <<" ", "x">>
    /\ \E i \in Calls("func") : log[i].arg = Help \o <<" ", "x">>

\* C3: in handle_command and in handle_incoming, an event whose chat id is in
\* blacklist_chats, or is missing from a non-empty whitelist_chats (whatever
\* blacklist_chats holds), or whose sender id is absent, reaches no handler and
\* no watcher.
C3_ChatFilter ==
    (call.handler # "none" /\ ChatLevelDenied)
    => Calls("func") = {} /\ Calls("watcher") = {}

\* a command of the owner in chat 7, with whitelist_chats = [5] and a
\* blacklist that does not name chat 7, has been dropped
C3_Witness ==
    /\ InCommand
    /\ pc = "done"
    /\ call.event.message = Dot \o Help
    /\ call.event.from_id = me
    /\ EventChat = 7
    /\ loc.whitelist_chats.ids = {5}
    /\ loc.blacklist_chats = PyList({}, {"7.mod_x"})
    /\ Calls("func") = {}

\* C4: a command whose token carries an @tag whose lowercased form differs from
\* the cached handle is never dispatched (no registry lookup, no handler
\* invocation), whoever sent it and whatever the chat type.
C4_ForeignTagNeverDispatched ==
    (InCommand /\ Len(loc.tag) = 2 /\ Lower(loc.tag[2]) # cached_username)
    => Calls("dispatch") = {} /\ Calls("func") = {}

\* ".ping@eve" of the owner in a private chat has been dropped
C4_Witness ==
    /\ InCommand
    /\ pc = "done"
    /\ call.event.message = Dot \o Ping \o <<"@", "e", "v", "e">>
    /\ call.event.from_id = me
    /\ call.event.is_private
    /\ loc.tag = << Ping, <<"e", "v", "e">> >>
    /\ log = <<>>

\* C5: ".ping@me" from somebody else in a group, ping registered, authorization
\* true and no policy denial, is dispatched to the ping handler: the security
\* check is asked and, having answered True, the handler is invoked.
C5_SelfTagDispatched ==
    ( /\ InCommand
      /\ pc = "done"
      /\ ConfiguredPrefixes = <<Dot>>
      /\ call.event.message = Dot \o Ping \o <<"@">> \o Me
      /\ call.event.from_id = OtherId
      /\ ~call.event.is_private
      /\ ~call.event.via_bot_id
      /\ EmptyPolicy
      /\ CheckAllows )
    => \E i \in Calls("func") : log[i].who = "ping"


\* the place in log of the handler's invocation, 0 when there is none
FuncAt == IF Calls("func") = {} THEN 0 ELSE CHOOSE i \in Calls("func") : TRUE

\* the user-visible calls made after the handler's invocation
NoticeAttempts ==
    { i \in DOMAIN log : i > FuncAt /\ log[i].op \in {"edit", "reply", "respond"} }

\* C6: when the invoked handler raises, handle_command makes exactly one notice
\* attempt (a respond with the generic wording for a bot identity, an edit of
\* the message for a self identity), does not invoke the handler again, and
\* raises to its caller the exception the handler raised, whether the notice
\* attempt succeeded or raised.
C6_OneNoticeThenReraise ==
    (InCommand /\ loc.e # "none")
    => /\ Cardinality(Calls("func")) = 1
       /\ Cardinality(NoticeAttempts) = 1
       /\ \A i \in NoticeAttempts :
            IF bot
            THEN /\ log[i].op = "respond"
                 /\ log[i].arg = <<"<b>Sorry, something went wrong!</b>">>
            ELSE log[i].op = "edit"
       /\ pc \in {"hc_notice", "done"}
       /\ pc = "done" => raised = "HandlerError"

\* the handler raised, the notice attempt raised too, and the handler's
\* exception is the one handle_command raised
C6_Witness ==
    /\ InCommand
    /\ pc = "done"
    /\ loc.e = "HandlerError"
    /\ loc.notice_error = "NoticeError"
    /\ raised = "HandlerError"
    /\ Cardinality(NoticeAttempts) = 1

\* watcher j of the call has been invoked
Invoked(j) == \E i \in Calls("watcher") : log[i].n = j
\* watcher j of the call has raised
Failed(j) == \E i \in Calls("logging.exception") : log[i].n = j
\* "<chat>.<module>" for the event of the call
KeyOf(mod) == ToString(EventChat) \o "." \o mod
\* the module-level denial, on the policy the call has read
ModuleLevelDenied(mod) ==
    \/ KeyOf(mod) \in loc.blacklist_chats.keys
    \/ loc.whitelist_modules.keys # {} /\ KeyOf(mod) \notin loc.whitelist_modules.keys

\* C7: when a watcher raises, every watcher registered after it that is not
\* policy-denied is still invoked for the event, and handle_incoming returns
\* normally, with no exception to the caller and no user notice.
C7_LaterWatchersStillRun ==
    (InIncoming /\ pc = "done")
    => /\ raised = "none"
       /\ \A i \in DOMAIN log : log[i].op \notin {"edit", "reply", "respond"}
       /\ \A j, k \in DOMAIN loc.watchers :
            (Failed(j) /\ j < k /\ ~ModuleLevelDenied(loc.watchers[k])) => Invoked(k)

\* C8: the entry "7.mod_x" of blacklist_chats, the policy holding nothing else,
\* suppresses the handler and the watchers of mod_x in chat 7 only: in chat 7
\* the handlers and watchers of every other module are still invoked, the
\* watchers registered after one of mod_x included, and mod_x is invoked in
\* every other chat.
C8_ModuleBlacklistOnlyThatModule ==
    ( /\ pc = "done"
      /\ loc.blacklist_chats = PyList({}, {"7.mod_x"})
      /\ loc.whitelist_chats = EmptyList
      /\ loc.whitelist_modules = EmptyList
      /\ call.event.from_id # NoId )
    => /\ InIncoming =>
            \A k \in DOMAIN loc.watchers :
                Invoked(k) <=> ~(EventChat = 7 /\ loc.watchers[k] = "mod_x")
       /\ (InCommand /\ loc.check = "True") =>
            (Calls("func") # {} <=> ~(EventChat = 7 /\ loc.func.mod = "mod_x"))


\* one character, HTML-escaped
Entity(c) ==
    CASE c = "&" -> Amp
      [] c = "<" -> Lt
      [] c = ">" -> Gt
      [] OTHER -> <<c>>

\* a text with each character HTML-escaped
RECURSIVE Entities(_)
Entities(text) == IF text = <<>> THEN <<>> ELSE Entity(Head(text)) \o Entities(Tail(text))

\* the text starts with the chosen prefix twice and is not made up of
\* repetitions of the prefix alone
DoubledPrefix(text, prefix) ==
    /\ prefix # <<>>
    /\ StartsWith(text, prefix \o prefix)
    /\ \A k \in 0..Len(text) : text # Repeat(prefix, k)

\* the case of C9: a self identity, a call of handle_command that has ended, a
\* text with the chosen prefix doubled
C9_Case ==
    /\ InCommand
    /\ pc = "done"
    /\ ~bot
    /\ DoubledPrefix(call.event.message, loc.prefix)

\* the HTML-escaped text with one leading prefix removed
C9_Escaped == Entities(Drop(call.event.message, Len(loc.prefix)))

EditsBeforeHandler ==
    { i \in Calls("edit") : FuncAt = 0 \/ i < FuncAt }

C10_EscapedNeverInvoked ==
    (InCommand /\ \E i \in Calls("edit") : log[i].at = 68)
    => Calls("func") = {}

\* the writes to command_prefix the call has made
PrefixWrites == { i \in Calls("db.set") : log[i].who = "command_prefix" }

\* the step is the entry of a call of handle_command
EntersCommand == pc = "idle" /\ call'.handler = "handle_command"

\* the entry of a call that finds the non-empty string s in the store matches
\* the text against [s] and leaves [s] in the store, written once
MigratesScalar ==
    LET s == db_prefix.val[1]
    IN  /\ db_prefix' = [kind |-> "list", val |-> <<s>>]
        /\ loc'.prefix = IF StartsWith(call'.event.message, s) THEN s ELSE <<>>
        /\ \E i \in DOMAIN log' :
            /\ log'[i].op = "db.set" /\ log'[i].who = "command_prefix"
            /\ log'[i].arg = s
            /\ \A j \in DOMAIN log' : log'[j].op = "db.set" => j = i

\* C11: when command_prefix is stored as a non-empty string s, the first call
\* of handle_command, command or not, matches the text against [s] and writes
\* [s] back to the store; every later call finds a list and writes nothing to
\* command_prefix, and nothing else ever changes the stored value.
C11_ScalarMigratedOnce ==
    [][ /\ EntersCommand =>
            IF db_prefix.kind = "str" /\ db_prefix.val[1] # <<>>
            THEN MigratesScalar
            ELSE /\ db_prefix' = db_prefix
                 /\ \A i \in DOMAIN log' : log'[i].op # "db.set"
        /\ ~EntersCommand =>
            /\ db_prefix' = db_prefix
            /\ Cardinality({ i \in DOMAIN log' : log'[i].op = "db.set" })
                 <= Cardinality(Calls("db.set"))
        /\ db_prefix.kind = "list" => db_prefix'.kind = "list"
      ]_vars

\* the first call, on the text "help" that is no command, has turned the stored
\* "." into ["."]
C11_Witness ==
    /\ InCommand
    /\ pc = "done"
    /\ call.event.message = Help
    /\ db_prefix = DbList(<<Dot>>)
    /\ Cardinality(PrefixWrites) = 1
    /\ Calls("dispatch") = {}

\* the place in log of the call of the security check, 0 when there is none
CheckAt == IF Calls("check") = {} THEN 0 ELSE CHOOSE i \in Calls("check") : TRUE

\* C12: when the security check answers anything other than True for the
\* resolved handler, handle_command stops silently: the handler is not
\* invoked, no edit, reply or respond is sent after the check, and no exception
\* is raised.
C12_DeniedStopsSilently ==
    (InCommand /\ loc.check \in {"False", "None"})
    => /\ pc = "done"
       /\ raised = "none"
       /\ Calls("func") = {}
       /\ Cardinality(Calls("check")) = 1
       /\ \A i \in DOMAIN log :
            i > CheckAt => log[i].op \notin {"edit", "reply", "respond"}
       /\ log[Len(log)].op = "check"

\* ".ping" of the owner in a private chat, the check answering None, has ended
\* with the check as the last call made
C12_Witness ==
    /\ InCommand
    /\ pc = "done"
    /\ call.event.message = Dot \o Ping
    /\ loc.check = "None"
    /\ loc.func = Func("ping", "mod_x")
    /\ raised = "none"
    /\ Calls("func") = {}

\* C13: an exception leaves handle_command only when a command handler was
\* invoked and raised; a call that stops before the handler's invocation, the
\* self-escape edit or the security check having failed included, returns
\* normally under every configured prefix list; and handle_incoming never lets
\* out the exception of a watcher.
C13_OnlyHandlerFailuresPropagate ==
    /\ (InCommand /\ raised # "none") =>
            /\ Calls("func") # {}
            /\ loc.e = "HandlerError"
            /\ raised = "HandlerError"
    /\ (InCommand /\ pc = "done" /\ Calls("func") = {}) => raised = "none"
    /\ InIncoming => raised = "none"

\* the call of handle_command has returned without invoking a handler
EndedUninvoked == InCommand /\ pc = "done" /\ raised = "none" /\ Calls("func") = {}

\* why it did: the policy filtered the event, at chat or at module level
FilteredByPolicy ==
    \/ ChatLevelDenied
    \/ loc.check = "True" /\ ModuleLevelDenied(loc.func.mod)
\* the command was addressed to someone else
NotAddressed == loc.tag # <<>> /\ Calls("dispatch") = {}
\* the registry knew no handler
NoHandlerFound == Calls("dispatch") # {} /\ loc.func = NoFunc
\* the security check did not answer True
Unauthorized == loc.check \in {"False", "None"}

\* the user-visible calls of the call
Visible == { i \in DOMAIN log : log[i].op \in {"edit", "reply", "respond"} }

\* C14: whenever handle_command ends without invoking a handler because the
\* event was filtered by policy, not addressed to this session, resolved to no
\* handler or failed authorization, no edit, reply or respond has been
\* performed on the chat for that event.
C14_DroppedCommandsInvisible ==
    ( /\ EndedUninvoked
      /\ FilteredByPolicy \/ NotAddressed \/ NoHandlerFound \/ Unauthorized )
    => Visible = {}

\* the identity init caches: the account's id and its handle in lower case
IdentityCached == me = 1 /\ cached_username = <<"b", "o", "b">>

\* C15: CommandDispatcher.init, which caches the account's id and its
\* lowercased handle, completes before handle_command or handle_incoming can be
\* called for any event: the handlers are registered only after init has
\* returned, a failing init propagates and leaves neither handler registered,
\* and neither handler ever writes the cached identity again.
C15_InitBeforeHandlers ==
    /\ [] /\ phase = "running" => IdentityCached
          /\ (call.handler # "none" \/ pc # "idle") => phase = "running"
          /\ phase = "aborted" => me = 0 /\ cached_username = <<>>
    /\ [][ /\ phase' = "running" => phase \in {"inited", "running"}
           /\ phase = "aborted" => phase' = "aborted"
           /\ phase \in {"inited", "running"} =>
                me' = me /\ cached_username' = cached_username
         ]_vars

\* a call of handle_incoming is at a watcher, with the identity init cached
C15_Witness ==
    /\ InIncoming
    /\ pc = "hi_watcher"
    /\ phase = "running"
    /\ IdentityCached

\* the text of the event with the chosen prefix removed
Stripped == Drop(call.event.message, Len(loc.prefix))

\* what follows the first whitespace-delimited word of a text
AfterToken(s) ==
    LET a == Drop(s, LeadingSpaces(s)) IN Drop(a, LeadingWord(a))

\* C16: whenever handle_command invokes a handler, the text the handler
\* receives is the registry's canonical text followed by exactly the part of
\* the prefix-stripped text that follows the typed command token, for every
\* input, texts with whitespace between the prefix and the token included.
C16_HandlerGetsCanonicalText ==
    InCommand => \A i \in Calls("func") : log[i].arg = loc.txt \o AfterToken(Stripped)

\* the watchers of the call the module-level filter denies
DeniedWatchers == { k \in DOMAIN loc.watchers : ModuleLevelDenied(loc.watchers[k]) }

\* C17: in handle_incoming, when the module-level filter denies a watcher W
\* (its "<chat_id>.<module>" key is in blacklist_chats, or whitelist_modules is
\* non-empty and lacks the key), the whole fan-out for the event ends: no
\* watcher registered after W is invoked, while the watchers registered before
\* W have already run.
C17_DenialEndsFanout ==
    InIncoming =>
        \A k \in DeniedWatchers :
            /\ \A j \in DOMAIN loc.watchers : j >= k => ~Invoked(j)
            /\ (pc = "done" /\ \A d \in DeniedWatchers : k <= d) =>
                    /\ \A j \in 1..(k - 1) : Invoked(j)
                    /\ loc.i = k
                    /\ raised = "none"

\* watchers of mod_y, mod_x and mod_y in chat 7 with "7.mod_x" blacklisted: the
\* first has run and the fan-out has ended at the second
C17_Witness ==
    /\ InIncoming
    /\ pc = "done"
    /\ EventChat = 7
    /\ loc.watchers = <<"mod_y", "mod_x", "mod_y">>
    /\ loc.blacklist_chats = PyList({}, {"7.mod_x"})
    /\ loc.whitelist_modules = EmptyList
    /\ Invoked(1) /\ ~Invoked(2) /\ ~Invoked(3)

\* the event of the call is a command: a configured prefix followed by a token
IsCommand == InCommand /\ loc.prefix # <<>> /\ SplitMax1(Stripped) # <<>>

\* the typed token, split at its first "@"
TypedTag == SplitAtMax1(SplitMax1(Stripped)[1])

\* the call is past the addressing step or has ended
Addressed == pc \notin {"idle", "hc_edit"}

\* the rule of C18: an untagged command reaches the registry lookup exactly
\* when the owner sent it or the chat is private, a command tagged with the
\* handle, in any letter case, reaches it always
AddressingRule ==
    /\ Len(TypedTag) = 1 =>
        (Calls("dispatch") # {} <=> (call.event.from_id = me \/ call.event.is_private))
    /\ (Len(TypedTag) = 2 /\ Lower(TypedTag[2]) = <<"b", "o", "b">>) =>
        Calls("dispatch") # {}

FirstMatch ==
    LET text == call.event.message
        P == ConfiguredPrefixes
    IN  IF \A k \in DOMAIN P : ~StartsWith(text, P[k]) THEN <<>>
        ELSE P[CHOOSE k \in DOMAIN P :
                    /\ StartsWith(text, P[k])
                    /\ \A j \in 1..(k - 1) : ~StartsWith(text, P[j])]

\* the text of the event with that entry removed
AfterFirstMatch == Drop(call.event.message, Len(FirstMatch))

\* the failure notice of line 101 names <p>support and <p>logs error
NoticeNames(arg, p) ==
    \E k \in DOMAIN arg :
        /\ arg[k] = "support</code><b>) along with the logs (</b><code>"
        /\ k > Len(p) + 1
        /\ SubSeq(arg, k - Len(p), k - 1) = p
        /\ arg[k - Len(p) - 1] =
              "</code><b>. Please report it in the support group (</b><code>"
        /\ SubSeq(arg, k + 1, Len(arg)) = p \o <<"logs error</code><b>)</b>">>

\* C19: the chosen prefix is the first entry of the configured list, in list
\* order, that the text starts with, even when a later entry is a longer match
\* (the list [".", ".."] and the text "..help" select "."); the escape test,
\* the stripping and the notice text all use that entry.
C19_FirstMatchingPrefix ==
    InCommand =>
        /\ loc.prefix = FirstMatch
        /\ \A i \in Calls("edit") :
            /\ log[i].at = 68 =>
                /\ DoubledPrefix(call.event.message, FirstMatch)
                /\ log[i].arg = Entities(AfterFirstMatch)
            /\ log[i].at = 101 => NoticeNames(log[i].arg, FirstMatch)
        /\ \A i \in Calls("dispatch") :
            log[i].arg = SplitAtMax1(SplitMax1(AfterFirstMatch)[1])[1]
        /\ \A i \in Calls("check") : log[i].arg = AfterFirstMatch

\* under the list [".", ".."] the text "..help" has been taken with the prefix
\* ".": it was edited to ".help" and ".help" was looked up
C19_Witness ==
    /\ InCommand
    /\ pc = "done"
    /\ db_prefix = DbList(<<Dot, Dot \o Dot>>)
    /\ call.event.message = Dot \o Dot \o Help
    /\ loc.prefix = Dot
    /\ \E i \in Calls("edit") : log[i].at = 68 /\ log[i].arg = Dot \o Help
    /\ \E i \in Calls("dispatch") : log[i].arg = Dot \o Help

\* C20: redaction yields a copy used only for logging: after handle_command or
\* handle_incoming has run, the phone field of the event's own message object
\* is unchanged, and the message passed to a handler or a watcher carries the
\* original, unredacted value.
C20_RedactionLeavesEvent ==
    /\ pc = "done" => event.phone = call.event.phone
    /\ pc \in {"hc_func", "hi_watcher"} => event.phone = call.event.phone

\* the typed token passes the addressing rule
AddressedToUs ==
    /\ ~(Len(TypedTag) = 2 /\ Lower(TypedTag[2]) # cached_username)
    /\ \/ call.event.from_id = me
       \/ call.event.is_private
       \/ Len(TypedTag) = 2 /\ Lower(TypedTag[2]) \in {cached_username, <<"m", "e">>}

\* the call ended at the module-level filter: authorized, no handler invoked
ModuleDeniedCommand ==
    /\ InCommand /\ pc = "done" /\ raised = "none"
    /\ Calls("func") = {}
    /\ ModuleLevelDenied(loc.func.mod)
    /\ loc.func.name # ""
    /\ loc.check \notin {"False", "None"}
    /\ Calls("check") # {}

\* the text line 85 leaves in the message
TextOfLine85 == loc.txt \o Drop(Stripped, Len(loc.command))

\* C21: in handle_command the self-escape edit is attempted only for events
\* that passed the chat-level filter; the security check is called at most
\* once per event and only after the chat filter, the addressing and the
\* registry lookup have all passed; the module-level filter is evaluated only
\* after the check answered True, so a module-denied command has already been
\* authorized and has had its text rewritten.
C21_GuardOrdering ==
    InCommand =>
        /\ (\E i \in Calls("edit") : log[i].at = 68) => ~ChatLevelDenied
        /\ Cardinality(Calls("check")) <= 1
        /\ \A i \in Calls("check") :
            /\ ~ChatLevelDenied
            /\ AddressedToUs
            /\ \E j \in Calls("dispatch") : j < i
            /\ loc.func.name # ""
        /\ ModuleDeniedCommand =>
            /\ loc.check = "True"
            /\ event.message = TextOfLine85
        /\ (pc = "done" /\ loc.check \in {"False", "None"}) =>
            event.message = Stripped

\* ".h x", where whitelist_modules names "7.mod_x" only, was authorized,
\* rewritten to "help x" and then denied for module mod_y
C21_Witness ==
    /\ ModuleDeniedCommand
    /\ call.event.message = <<".", "h", " ", "x">>
    /\ loc.check = "True"
    /\ loc.whitelist_modules.keys = {"7.mod_x"}
    /\ event.message = Help \o <<" ", "x">>

\* the self-escape edit of the call
EscapeEdits == { i \in Calls("edit") : log[i].at = 68 }

\* the four conditions of C22, on the text of the event and the chosen prefix
FourConditions ==
    LET text == call.event.message
        p == loc.prefix
    IN  /\ ~bot
        /\ Len(text) > Len(p)
        /\ Len(text) >= 2 * Len(p) /\ SubSeq(text, 1, 2 * Len(p)) = p \o p
        /\ text # Repeat(p, Len(text) \div Len(p))

\* the text of the event is the chosen prefix repeated a whole number of times
WholeRepetitions ==
    \E k \in 1..Len(call.event.message) : call.event.message = Repeat(loc.prefix, k)

\* what C22 adds: no edit of a text of whole prefix repetitions, none by a bot
NeverEdited ==
    /\ WholeRepetitions => EscapeEdits = {}
    /\ bot => Calls("edit") = {}

\* C22 as stated: the self-escape edit is performed if and only if the session
\* is not a bot, the text is longer than the prefix, the text starts with the
\* prefix twice, and the text differs from the prefix repeated
\* floor(len(text)/len(prefix)) times; a text made up solely of whole prefix
\* repetitions is never edited, and a bot identity never edits.
C22_Original ==
    (InCommand /\ loc.prefix # <<>>)
    => /\ EscapeEdits # {} <=> FourConditions
       /\ NeverEdited

\* C22, amended: for an event that does not originate from an inline bot and
\* passes the chat-level filter, the self-escape edit is performed if and only
\* if the four conditions hold; an event stopped by one of those two guards is
\* not edited; a text made up solely of whole prefix repetitions is never
\* edited, and a bot identity never edits.
C22_EscapeCondition ==
    (InCommand /\ loc.prefix # <<>>)
    => /\ IF call.event.via_bot_id \/ ChatLevelDenied
          THEN EscapeEdits = {}
          ELSE EscapeEdits # {} <=> FourConditions
       /\ Cardinality(EscapeEdits) <= 1
       /\ NeverEdited

\* under the list ["..", "."] the text "....help" was edited to "..help", and
\* this is the state of a self identity
C22_Witness ==
    /\ InCommand
    /\ ~bot
    /\ loc.prefix = Dot \o Dot
    /\ call.event.message = Repeat(Dot, 4) \o Help
    /\ \E i \in EscapeEdits : log[i].arg = Dot \o Dot \o Help

\* C23: with whitelist_modules non-empty, a command handler or a watcher of
\* module M is invoked for an event in chat C only if "<C>.<M>" is an element
\* of whitelist_modules; the list is global, so an entry for one chat denies
\* every unlisted (chat, module) pair in every other chat as well.
C23_ModuleWhitelistGlobal ==
    (call.handler # "none" /\ loc.whitelist_modules.keys # {})
    => /\ \A i \in Calls("func") :
            ToString(EventChat) \o "." \o loc.func.mod \in loc.whitelist_modules.keys
       /\ \A i \in Calls("watcher") :
            ToString(EventChat) \o "." \o log[i].who \in loc.whitelist_modules.keys

\* with whitelist_modules = ["7.mod_x"], an authorized ".ping" (of mod_x) in
\* chat 5 has ended without its handler
C23_Witness ==
    /\ InCommand
    /\ pc = "done"
    /\ EventChat = 5
    /\ call.event.message = Dot \o Ping
    /\ loc.whitelist_modules.keys = {"7.mod_x"}
    /\ loc.blacklist_chats = EmptyList
    /\ loc.check = "True"
    /\ loc.func = Func("ping", "mod_x")
    /\ Calls("func") = {}

\* the watcher invocations of the call, in the order they were made
WatcherOrder == [ k \in 1..Cardinality(Calls("watcher")) |->
                    log[CHOOSE i \in Calls("watcher") :
                            Cardinality({ j \in Calls("watcher") : j <= i }) = k].n ]

\* C24: within one handle_incoming call the watchers are invoked one at a time
\* in registration order: watcher i+1 is not started until watcher i has
\* returned or raised, and no watcher is invoked more than once per event.
C24_WatchersSequential ==
    /\ [] (InIncoming =>
            /\ \A a, b \in DOMAIN WatcherOrder : a < b => WatcherOrder[a] < WatcherOrder[b]
            /\ \A i \in Calls("watcher") :
                /\ log[i].n \in DOMAIN loc.watchers
                /\ log[i].who = loc.watchers[log[i].n]
            /\ pc = "hi_watcher" =>
                /\ log[Len(log)].op = "watcher"
                /\ log[Len(log)].n = loc.i)
    /\ [][ (call'.handler = "handle_incoming" /\ Len(log') > Len(log)) =>
            /\ Cardinality({ i \in DOMAIN log' : log'[i].op = "watcher" })
                 <= Cardinality(Calls("watcher")) + 1
            /\ pc = "hi_watcher" => loc'.i > loc.i
         ]_vars

\* watchers of mod_x, mod_y and mod_x have been invoked in that order, the
\* second having raised
C24_Witness ==
    /\ InIncoming
    /\ pc = "done"
    /\ loc.watchers = <<"mod_x", "mod_y", "mod_x">>
    /\ WatcherOrder = <<1, 2, 3>>
    /\ Failed(2) /\ ~Failed(1)

\* C25: a prefix-matching event that originates from an inline bot stops in
\* handle_command before the chat filter: no redaction, no edit, no registry
\* lookup, no authorization call and no handler invocation happen, and no
\* exception is raised.
C25_InlineBotStopsEarly ==
    (InCommand /\ call.event.via_bot_id /\ loc.prefix # <<>>)
    => /\ pc = "done"
       /\ raised = "none"
       /\ event = call.event
       /\ \A i \in DOMAIN log :
            log[i].op \notin {"edit", "reply", "respond", "dispatch", "check", "func"}
       /\ loc.blacklist_chats = EmptyList /\ loc.whitelist_chats = EmptyList

\* ".help" sent through an inline bot, with a phone attribute, has been dropped
\* with the attribute as it was
C25_Witness ==
    /\ InCommand
    /\ pc = "done"
    /\ call.event.via_bot_id
    /\ call.event.message = Dot \o Help
    /\ call.event.phone = <<"4", "2">>
    /\ event.phone = <<"4", "2">>
    /\ log = <<>>

\* C26: a prefix-matching command event that carries a sticker is ignored by
\* handle_command: no handler is invoked for it.
C26_StickerIgnored ==
    (InCommand /\ call.event.sticker /\ loc.prefix # <<>>) => Calls("func") = {}

\* the part of a locale identifier ahead of its "_"
LanguagePart(p) == Take(p, Before(p, "_"))

\* the preferred identifier p is acceptable for the locale a: case ignored, it
\* is a itself, or its alias is, or its language part is
Acceptable(p, a) ==
    \/ Lower(p) = Lower(a)
    \/ Alias(Lower(p)) # None /\ Lower(Alias(Lower(p))) = Lower(a)
    \/ LanguagePart(p) # p /\ Lower(LanguagePart(p)) = Lower(a)

\* the locales of the Translator that define its last english_text as a key
Defining ==
    { l \in LocaleIds :
        /\ translator.english_text = Hi
        /\ translator._data[l] \in {"empty", "text"} }

\* the text the pack of locale l holds for the key
Stored(l) == IF translator._data[l] = "text" THEN l \o <<":", "H", "i">> ELSE <<>>

\* the places of the preferred-language list acceptable among those locales
AcceptablePlaces ==
    { i \in DOMAIN translator._languages :
        \E a \in Defining : Acceptable(translator._languages[i], a) }

\* gettext has been called
GettextCalled == translator.state = "ready" /\ translator.english_text # <<>>

\* C27: Translator.gettext(text) returns text verbatim whenever no loaded
\* locale defines text as a key; when locales define it, the result is the
\* translation from the first entry of the preferred-language list that is
\* acceptable among those locales, and text verbatim if none is acceptable.
C27_GettextNegotiates ==
    GettextCalled =>
        IF Defining = {} \/ AcceptablePlaces = {}
        THEN translator.result = translator.english_text
        ELSE LET i == CHOOSE k \in AcceptablePlaces : \A j \in AcceptablePlaces : k <= j
             IN  \E a \in Defining :
                    /\ Acceptable(translator._languages[i], a)
                    /\ translator.result = Stored(a)

\* C28: a message that is a configured prefix followed by whitespace only
\* (". ") is treated as not-a-command: handle_command stops silently, with no
\* handler invocation and no exception.
C28_PrefixThenWhitespace ==
    ( /\ InCommand
      /\ pc = "done"
      /\ loc.prefix # <<>>
      /\ Stripped # <<>>
      /\ \A k \in DOMAIN Stripped : IsSpace(Stripped[k]) )
    => raised = "none" /\ Calls("func") = {}

\* C29: handle_command attempts the doubled-prefix self-escape edit only on
\* messages whose sender is the session's own identity; a doubled-prefix
\* message sent by another user, in a private chat or in a group, is never
\* edited.
C29_EscapeOnlyOwnMessages ==
    (InCommand /\ call.event.from_id # me) => EscapeEdits = {}

=============================================================================
